---- MODULE Spec2Model ----
(***************************************************************************)
(* Model of the scheduling engines of TrabalhoSO.py: EscalonadorBase,      *)
(* EscalonadorFCFS, EscalonadorSJF and EscalonadorRoundRobin.              *)
(*                                                                         *)
(* Processo objects live in a heap, proc, indexed by object identity       *)
(* 1..Len(entrada); the Python lists (processos, fila_prontos,             *)
(* processos_concluidos) are sequences of object identities, so that a     *)
(* field written through one reference is seen through every other one.    *)
(* A field that holds Python's None is None (the empty tuple) and a field  *)
(* that holds a value v is Some(v).                                        *)
(*                                                                         *)
(* One iteration of an executar loop is split at the points the claims     *)
(* look at: pc = "loop" is the while test, "select" the test               *)
(* `if fila_prontos`, "run" the point where processo_atual has been popped *)
(* and its dispatch metrics written but the clock not yet advanced, and    *)
(* "done" the state after executar has returned.                           *)
(***************************************************************************)
EXTENDS Integers, Sequences, FiniteSets, TLC

\* Bounds of the enumerated workloads.
MaxProc == 3
MaxChegada == 2
MaxExecucao == 2
MaxQuantum == 2
MaxEscala == 2

VARIABLES
  classe,                \* "FCFS" | "SJF" | "RR": the scheduler class built
  preemptivo,            \* executar's argument (SJF only)
  quantum_tempo,         \* self.quantum_tempo (RR only)
  entrada,               \* the list handed to __init__, as object identities
  proc,                  \* heap: object identity -> the Processo's fields
  processos_originais,   \* self.processos_originais
  processos,             \* self.processos: not yet arrived
  fila_prontos,          \* executar's local fila_prontos
  processos_concluidos,  \* self.processos_concluidos
  tempo_atual,           \* self.tempo_atual
  processo_atual,        \* executar's local processo_atual, 0 while unbound
  primeira_execucao,     \* RR's local dict pid -> bool
  fim_ultima_execucao,   \* RR's local dict pid -> time
  retorno,               \* executar's return value, once pc = "done"
  pc,
  escala,                \* clock ticks per time unit: the time t/escala is kept as t
  sim_processos,         \* the caller's own list of Processo (SimuladorEscalonamento.processos)
  plano,                 \* the runs the caller still has to make after this one
  resultados,            \* the caller's dict resultados, in insertion order
  anterior               \* what the run before this one left (None in the first run)

vars == <<classe, preemptivo, quantum_tempo, entrada, proc, processos_originais,
          processos, fila_prontos, processos_concluidos, tempo_atual,
          processo_atual, primeira_execucao, fim_ultima_execucao, retorno, pc,
          escala, sim_processos, plano, resultados, anterior>>

\* What no step of executar touches.
exterior == <<escala, sim_processos, plano, resultados, anterior>>

None == <<>>
Some(v) == <<v>>

Max(a, b) == IF a >= b THEN a ELSE b
Min(a, b) == IF a <= b THEN a ELSE b

Range(s) == {s[i] : i \in 1..Len(s)}

RECURSIVE SumSeq(_)
SumSeq(s) == IF s = <<>> THEN 0 ELSE s[1] + SumSeq(Tail(s))

\* Processo.__init__
Processo(pid, tempo_chegada, tempo_execucao) ==
  [pid |-> pid,
   tempo_chegada |-> tempo_chegada,
   tempo_execucao |-> tempo_execucao,
   tempo_execucao_original |-> tempo_execucao,
   tempo_espera |-> 0,
   tempo_resposta_total |-> 0,
   tempo_conclusao |-> None,
   tempo_resposta |-> None]

\* list.sort / sorted with a key: ascending and stable.  s is a sequence of
\* object identities, k maps an identity to its key.
RECURSIVE Sorted(_, _)
Sorted(s, k) ==
  IF Len(s) <= 1 THEN s
  ELSE LET r == Sorted(SubSeq(s, 1, Len(s) - 1), k)
           x == s[Len(s)]
       IN SelectSeq(r, LAMBDA y : k[y] <= k[x]) \o <<x>>
            \o SelectSeq(r, LAMBDA y : k[y] > k[x])

\* Variant: __init__ does not order the list (every key equal).
ChaveInitConstante(p) == 0
\* The lambda keys of the three sorts (lines 88, 131, 169).
ChaveInit(p) == p.tempo_chegada

\* Variant: the FCFS queue ordered by burst.
ChaveFCFS_porExecucao(p) == p.tempo_execucao
ChaveFCFS(p) == p.tempo_chegada

\* Variant: the SJF queue ordered by arrival.
ChaveSJF_porChegada(p) == p.tempo_chegada
ChaveSJF(p) == p.tempo_execucao

SortedInit(s, h) == Sorted(s, [i \in DOMAIN h |-> ChaveInit(h[i])])
SortedFCFS(s, h) == Sorted(s, [i \in DOMAIN h |-> ChaveFCFS(h[i])])
SortedSJF(s, h) == Sorted(s, [i \in DOMAIN h |-> ChaveSJF(h[i])])

\* Variant: every pending process is taken, arrived or not.
ChegouSempre(p, t) == TRUE
\* The filter of `recem_chegados = [p for p in self.processos if ...]`.
Chegou(p, t) == p.tempo_chegada <= t

RecemChegados(pend, h, t) == SelectSeq(pend, LAMBDA i : Chegou(h[i], t))
\* Variant: the arrived are not removed from self.processos.
RestantesTodos(pend, h, t) == pend
\* self.processos after `for p in recem_chegados: self.processos.remove(p)`
Restantes(pend, h, t) == SelectSeq(pend, LAMBDA i : ~Chegou(h[i], t))

\* Variant: the idle step is two time units.
PassoOciosoDuplo(t) == t + 2 * escala
\* `self.tempo_atual + 1` of the idle branches: one time unit later.
PassoOcioso(t) == t + escala

\* Variant: the loop runs only while something is pending.
CondicaoSoPendentes(pend, fila) == pend # <<>>
\* The while condition of the three loops.
CondicaoCiclo(pend, fila) == pend # <<>> \/ fila # <<>>

\* The dict calcular_metricas builds (lines 100-108).  A mean or a ratio is
\* kept as the pair <<numerator, denominator>>, in time units: a time of t
\* ticks is t/escala.
Metricas(concl, h, t) ==
  Some([tempo_espera_medio |->
          <<SumSeq([i \in 1..Len(concl) |-> h[concl[i]].tempo_espera]), Len(concl) * escala>>,
        tempo_resposta_total_medio |->
          <<SumSeq([i \in 1..Len(concl) |-> h[concl[i]].tempo_resposta_total]), Len(concl) * escala>>,
        taxa_processamento |-> IF t > 0 THEN <<Len(concl) * escala, t>> ELSE <<0, 1>>,
        utilizacao_cpu |->
          <<SumSeq([i \in 1..Len(concl) |-> h[concl[i]].tempo_execucao_original]) * 100,
            Max(t, escala)>>])

\* Variant: no test for an empty completed list.
calcular_metricas_sem_guarda(concl, h, t) == Metricas(concl, h, t)
\* EscalonadorBase.calcular_metricas
calcular_metricas(concl, h, t) ==
  IF concl = <<>> THEN None ELSE Metricas(concl, h, t)

----------------------------------------------------------------------------
\* Workloads: the driver numbers the processes it creates 1, 2, ... and hands
\* the list over in creation order; arrival times need not be sorted.
Carga(chegadas, execucoes) ==
  UNION {[1..n -> chegadas \X execucoes] : n \in 0..MaxProc}

\* The worked examples of the specification's section 8.
Exemplos ==
  { <<<<0, 5>>, <<1, 1>>>>,
    <<<<0, 8>>, <<0, 3>>, <<0, 5>>>>,
    <<<<0, 7>>, <<2, 2>>>>,
    <<<<0, 5>>, <<0, 5>>>> }

CargasValidas == Carga(0..MaxChegada, 1..MaxExecucao) \cup Exemplos
CargasQuaisquer == Carga(-1..MaxChegada, 0..MaxExecucao) \cup Exemplos

\* EscalonadorBase.__init__ (and EscalonadorRoundRobin.__init__) followed by
\* the entry of executar, for the workload w.
Construido(w, c, pre, q) ==
  LET h == [i \in 1..Len(w) |-> Processo(i, w[i][1], w[i][2])]
      ent == [i \in 1..Len(w) |-> i]
  IN /\ classe = c
     /\ preemptivo = pre
     /\ quantum_tempo = q
     /\ entrada = ent
     /\ proc = h
     /\ processos_originais = SortedInit(ent, h)
     /\ processos = SortedInit(ent, h)
     /\ fila_prontos = <<>>
     /\ processos_concluidos = <<>>
     /\ tempo_atual = 0
     /\ processo_atual = 0
     /\ primeira_execucao = <<>>
     /\ fim_ultima_execucao = <<>>
     /\ retorno = None
     /\ pc = "loop"

Configuracoes(quanta) ==
  {<<"FCFS", FALSE, 0>>, <<"SJF", FALSE, 0>>, <<"SJF", TRUE, 0>>}
    \cup {<<"RR", FALSE, q>> : q \in quanta}

\* The scheduler is built and run once, by a caller that keeps nothing; times
\* are whole time units.
SemSimulador ==
  /\ escala = 1
  /\ sim_processos = <<>>
  /\ plano = <<>>
  /\ resultados = <<>>
  /\ anterior = None

Init ==
  \E w \in CargasValidas, cfg \in Configuracoes(1..MaxQuantum) :
    Construido(w, cfg[1], cfg[2], cfg[3]) /\ SemSimulador

\* Round-Robin with quantum 0 never leaves clock 0 and adds the distance to a
\* negative arrival to tempo_espera at every dispatch, without bound: that
\* combination of invalid arguments is left out of the enumeration.
InitQualquer ==
  \E w \in CargasQuaisquer, cfg \in Configuracoes(0..MaxQuantum) :
    /\ cfg[3] = 0 /\ cfg[1] = "RR" => \A i \in 1..Len(w) : w[i][1] >= 0
    /\ Construido(w, cfg[1], cfg[2], cfg[3])
    /\ SemSimulador

----------------------------------------------------------------------------
\* EscalonadorFCFS.executar

\* while test true; lines 125-131: admit the arrived, sort by arrival.
FCFS_Admit ==
  /\ classe = "FCFS" /\ pc = "loop"
  /\ CondicaoCiclo(processos, fila_prontos)
  /\ fila_prontos' = SortedFCFS(fila_prontos \o RecemChegados(processos, proc, tempo_atual), proc)
  /\ processos' = Restantes(processos, proc, tempo_atual)
  /\ pc' = "select"
  /\ UNCHANGED <<exterior, classe, preemptivo, quantum_tempo, entrada, proc, processos_originais,
                 processos_concluidos, tempo_atual, processo_atual,
                 primeira_execucao, fim_ultima_execucao, retorno>>

\* lines 133-137: pop the head, set its waiting time.
FCFS_Dispatch ==
  /\ classe = "FCFS" /\ pc = "select"
  /\ fila_prontos # <<>>
  /\ LET a == Head(fila_prontos) IN
       /\ processo_atual' = a
       /\ fila_prontos' = Tail(fila_prontos)
       /\ proc' = [proc EXCEPT ![a].tempo_espera = Max(0, tempo_atual - proc[a].tempo_chegada)]
  /\ pc' = "run"
  /\ UNCHANGED <<exterior, classe, preemptivo, quantum_tempo, entrada, processos_originais, processos,
                 processos_concluidos, tempo_atual,
                 primeira_execucao, fim_ultima_execucao, retorno>>

\* Variant: the completion time is taken before the clock advances.
FCFS_Run_ConclusaoAntes ==
  /\ classe = "FCFS" /\ pc = "run"
  /\ LET a == processo_atual
         t == tempo_atual + proc[a].tempo_execucao
     IN /\ tempo_atual' = t
        /\ proc' = [proc EXCEPT ![a].tempo_resposta_total = t - proc[a].tempo_chegada,
                                ![a].tempo_conclusao = Some(tempo_atual)]
        /\ processos_concluidos' = Append(processos_concluidos, a)
  /\ pc' = "loop"
  /\ UNCHANGED <<exterior, classe, preemptivo, quantum_tempo, entrada, processos_originais, processos,
                 fila_prontos, processo_atual,
                 primeira_execucao, fim_ultima_execucao, retorno>>

\* lines 140-146: run it to completion.
FCFS_Run ==
  /\ classe = "FCFS" /\ pc = "run"
  /\ LET a == processo_atual
         t == tempo_atual + proc[a].tempo_execucao
     IN /\ tempo_atual' = t
        /\ proc' = [proc EXCEPT ![a].tempo_resposta_total = t - proc[a].tempo_chegada,
                                ![a].tempo_conclusao = Some(t)]
        /\ processos_concluidos' = Append(processos_concluidos, a)
  /\ pc' = "loop"
  /\ UNCHANGED <<exterior, classe, preemptivo, quantum_tempo, entrada, processos_originais, processos,
                 fila_prontos, processo_atual,
                 primeira_execucao, fim_ultima_execucao, retorno>>

\* lines 147-149: nothing ready, the clock advances by one.
FCFS_Idle ==
  /\ classe = "FCFS" /\ pc = "select"
  /\ fila_prontos = <<>>
  /\ tempo_atual' = PassoOcioso(tempo_atual)
  /\ pc' = "loop"
  /\ UNCHANGED <<exterior, classe, preemptivo, quantum_tempo, entrada, proc, processos_originais,
                 processos, fila_prontos, processos_concluidos, processo_atual,
                 primeira_execucao, fim_ultima_execucao, retorno>>

\* while test false; line 151.
FCFS_Return ==
  /\ classe = "FCFS" /\ pc = "loop"
  /\ ~CondicaoCiclo(processos, fila_prontos)
  /\ retorno' = calcular_metricas(processos_concluidos, proc, tempo_atual)
  /\ pc' = "done"
  /\ UNCHANGED <<exterior, classe, preemptivo, quantum_tempo, entrada, proc, processos_originais,
                 processos, fila_prontos, processos_concluidos, tempo_atual,
                 processo_atual, primeira_execucao, fim_ultima_execucao>>

----------------------------------------------------------------------------
\* EscalonadorSJF.executar

\* min(fila_prontos, key=lambda x: x.tempo_execucao): the first of the minima.
MaisCurto(fila, h) ==
  LET i == CHOOSE i \in 1..Len(fila) :
             /\ \A j \in 1..Len(fila) : h[fila[i]].tempo_execucao <= h[fila[j]].tempo_execucao
             /\ \A j \in 1..(i - 1) : h[fila[j]].tempo_execucao > h[fila[i]].tempo_execucao
  IN fila[i]

\* Variant: a job of equal length preempts too.
MaisCurtoOuIgual(mc, a) == mc.tempo_execucao <= a.tempo_execucao
\* line 181: the comparison that sends processo_atual back to the queue.
MaisCurtoQue(mc, a) == mc.tempo_execucao < a.tempo_execucao

\* lines 178-181: whether the preemptive branch requeues processo_atual.
Preempta(pre, fila, h, a) ==
  pre /\ fila # <<>> /\ MaisCurtoQue(h[MaisCurto(fila, h)], h[a])

\* while test true; lines 163-169: admit the arrived, sort by remaining burst.
SJF_Admit ==
  /\ classe = "SJF" /\ pc = "loop"
  /\ CondicaoCiclo(processos, fila_prontos)
  /\ fila_prontos' = SortedSJF(fila_prontos \o RecemChegados(processos, proc, tempo_atual), proc)
  /\ processos' = Restantes(processos, proc, tempo_atual)
  /\ pc' = "select"
  /\ UNCHANGED <<exterior, classe, preemptivo, quantum_tempo, entrada, proc, processos_originais,
                 processos_concluidos, tempo_atual, processo_atual, primeira_execucao,
                 fim_ultima_execucao, retorno>>

\* lines 171-175: pop the head, set its waiting time.
SJF_Dispatch ==
  /\ classe = "SJF" /\ pc = "select"
  /\ fila_prontos # <<>>
  /\ LET a == Head(fila_prontos) IN
       /\ processo_atual' = a
       /\ fila_prontos' = Tail(fila_prontos)
       /\ proc' = [proc EXCEPT ![a].tempo_espera = Max(0, tempo_atual - proc[a].tempo_chegada)]
  /\ pc' = "run"
  /\ UNCHANGED <<exterior, classe, preemptivo, quantum_tempo, entrada, processos_originais,
                 processos, processos_concluidos, tempo_atual, primeira_execucao,
                 fim_ultima_execucao, retorno>>

\* lines 178-193: requeue and continue when preemptivo finds a shorter job in
\* the queue, else run processo_atual to completion.
SJF_Run ==
  /\ classe = "SJF" /\ pc = "run"
  /\ LET a == processo_atual
         t == tempo_atual + proc[a].tempo_execucao
     IN IF Preempta(preemptivo, fila_prontos, proc, a)
        THEN /\ fila_prontos' = Append(fila_prontos, a)
             /\ UNCHANGED <<tempo_atual, proc, processos_concluidos>>
        ELSE /\ tempo_atual' = t
             /\ proc' = [proc EXCEPT ![a].tempo_execucao = 0,
                                     ![a].tempo_resposta_total = t - proc[a].tempo_chegada,
                                     ![a].tempo_conclusao = Some(t)]
             /\ processos_concluidos' = Append(processos_concluidos, a)
             /\ UNCHANGED fila_prontos
  /\ pc' = "loop"
  /\ UNCHANGED <<exterior, classe, preemptivo, quantum_tempo, entrada, processos_originais,
                 processos, processo_atual, primeira_execucao, fim_ultima_execucao,
                 retorno>>

\* lines 194-196: nothing ready, the clock advances by one.
SJF_Idle ==
  /\ classe = "SJF" /\ pc = "select"
  /\ fila_prontos = <<>>
  /\ tempo_atual' = PassoOcioso(tempo_atual)
  /\ pc' = "loop"
  /\ UNCHANGED <<exterior, classe, preemptivo, quantum_tempo, entrada, proc, processos_originais,
                 processos, fila_prontos, processos_concluidos, processo_atual,
                 primeira_execucao, fim_ultima_execucao, retorno>>

\* while test false; line 198.
SJF_Return ==
  /\ classe = "SJF" /\ pc = "loop"
  /\ ~CondicaoCiclo(processos, fila_prontos)
  /\ retorno' = calcular_metricas(processos_concluidos, proc, tempo_atual)
  /\ pc' = "done"
  /\ UNCHANGED <<exterior, classe, preemptivo, quantum_tempo, entrada, proc, processos_originais,
                 processos, fila_prontos, processos_concluidos, tempo_atual,
                 processo_atual, primeira_execucao, fim_ultima_execucao>>

----------------------------------------------------------------------------
\* EscalonadorRoundRobin.executar

\* A dict after d[k] = v for every k in ks.
DictSet(d, ks, v) == [k \in DOMAIN d \cup ks |-> IF k \in ks THEN v ELSE d[k]]

\* Variant: a slice is always a whole quantum.
FatiaInteira(q, restante) == q
\* line 245: the length of the slice.
Fatia(q, restante) == Min(q, restante)

\* line 253: the process goes back to the queue.
Incompleto(p) == p.tempo_execucao > 0

\* min(p.tempo_chegada for p in self.processos)
ProximaChegada(pend, h) ==
  CHOOSE c \in {h[i].tempo_chegada : i \in Range(pend)} :
    \A i \in Range(pend) : c <= h[i].tempo_chegada

\* Variant: the wait is always counted from the arrival.
JaExecutouNunca(fim) == FALSE
\* `fim_ultima_execucao[pid] > 0` (line 237): the process left the CPU before;
\* 0 is the value admission stores (line 226).
JaExecutou(fim) == fim > 0

\* while test true; lines 220-226: append the arrived in the order of
\* self.processos and enter them in the two dicts.
RR_Admit ==
  /\ classe = "RR" /\ pc = "loop"
  /\ CondicaoCiclo(processos, fila_prontos)
  /\ LET recem == RecemChegados(processos, proc, tempo_atual)
         pids == {proc[i].pid : i \in Range(recem)}
     IN /\ fila_prontos' = fila_prontos \o recem
        /\ processos' = Restantes(processos, proc, tempo_atual)
        /\ primeira_execucao' = DictSet(primeira_execucao, pids, FALSE)
        /\ fim_ultima_execucao' = DictSet(fim_ultima_execucao, pids, 0)
  /\ pc' = "select"
  /\ UNCHANGED <<exterior, classe, preemptivo, quantum_tempo, entrada, proc, processos_originais,
                 processos_concluidos, tempo_atual, processo_atual, retorno>>

\* lines 228-242: pop the head, set the response time on the first dispatch,
\* add to the waiting time.
RR_Dispatch ==
  /\ classe = "RR" /\ pc = "select"
  /\ fila_prontos # <<>>
  /\ LET a == Head(fila_prontos)
         p == proc[a]
         resposta == IF ~primeira_execucao[p.pid]
                     THEN Some(tempo_atual - p.tempo_chegada)
                     ELSE p.tempo_resposta
         espera == IF JaExecutou(fim_ultima_execucao[p.pid])
                   THEN p.tempo_espera + (tempo_atual - fim_ultima_execucao[p.pid])
                   ELSE p.tempo_espera + (tempo_atual - p.tempo_chegada)
     IN /\ processo_atual' = a
        /\ fila_prontos' = Tail(fila_prontos)
        /\ primeira_execucao' = DictSet(primeira_execucao, {p.pid}, TRUE)
        /\ proc' = [proc EXCEPT ![a].tempo_resposta = resposta,
                                ![a].tempo_espera = espera]
  /\ pc' = "run"
  /\ UNCHANGED <<exterior, classe, preemptivo, quantum_tempo, entrada, processos_originais,
                 processos, processos_concluidos, tempo_atual, fim_ultima_execucao,
                 retorno>>

\* lines 245-259: run one slice, then requeue or complete.
RR_Run ==
  /\ classe = "RR" /\ pc = "run"
  /\ LET a == processo_atual
         tempo_execucao == Fatia(quantum_tempo, proc[a].tempo_execucao)
         t == tempo_atual + tempo_execucao
         h == [proc EXCEPT ![a].tempo_execucao = @ - tempo_execucao]
     IN /\ tempo_atual' = t
        /\ fim_ultima_execucao' = DictSet(fim_ultima_execucao, {proc[a].pid}, t)
        /\ IF Incompleto(h[a])
           THEN /\ fila_prontos' = Append(fila_prontos, a)
                /\ proc' = h
                /\ UNCHANGED processos_concluidos
           ELSE /\ proc' = [h EXCEPT ![a].tempo_resposta_total = t - h[a].tempo_chegada,
                                     ![a].tempo_conclusao = Some(t)]
                /\ processos_concluidos' = Append(processos_concluidos, a)
                /\ UNCHANGED fila_prontos
  /\ pc' = "loop"
  /\ UNCHANGED <<exterior, classe, preemptivo, quantum_tempo, entrada, processos_originais,
                 processos, processo_atual, primeira_execucao, retorno>>

\* lines 260-267: nothing ready; the clock goes to the next arrival, at least
\* one unit ahead, or the loop breaks when nothing is pending either.
RR_Idle ==
  /\ classe = "RR" /\ pc = "select"
  /\ fila_prontos = <<>>
  /\ IF processos # <<>>
     THEN /\ tempo_atual' = Max(PassoOcioso(tempo_atual), ProximaChegada(processos, proc))
          /\ pc' = "loop"
     ELSE /\ pc' = "break"
          /\ UNCHANGED tempo_atual
  /\ UNCHANGED <<exterior, classe, preemptivo, quantum_tempo, entrada, proc, processos_originais,
                 processos, fila_prontos, processos_concluidos, processo_atual,
                 primeira_execucao, fim_ultima_execucao, retorno>>

\* while test false, or break; line 269.
RR_Return ==
  /\ classe = "RR"
  /\ \/ pc = "loop" /\ ~CondicaoCiclo(processos, fila_prontos)
     \/ pc = "break"
  /\ retorno' = calcular_metricas(processos_concluidos, proc, tempo_atual)
  /\ pc' = "done"
  /\ UNCHANGED <<exterior, classe, preemptivo, quantum_tempo, entrada, proc, processos_originais,
                 processos, fila_prontos, processos_concluidos, tempo_atual,
                 processo_atual, primeira_execucao, fim_ultima_execucao>>

----------------------------------------------------------------------------
\* ---------------------------------------------------------------------------
\* The caller that runs several schedulers on one workload
\* (SimuladorEscalonamento.executar_simulacao, and the loop of __main__).
\* The caller's n objects live at heap addresses n+1..2n; the list handed to a
\* scheduler holds addresses 1..n, which each run overwrites with new objects.

\* self.processos of the simulator (lines 296-302): pid is the position.
Originais(w) ==
  [i \in (Len(w) + 1)..(2 * Len(w)) |-> Processo(i - Len(w), w[i - Len(w)][1], w[i - Len(w)][2])]

\* Variant: the list handed to the scheduler is the caller's own objects.
SemCopias(ordem, h) == [heap |-> h, lista |-> ordem]
\* copia_processos (lines 320-323, 444-447): one new Processo per object of
\* ordem, built from that object's pid, tempo_chegada and tempo_execucao as
\* they are now.
Copias(ordem, h) ==
  [heap |-> [i \in (1..Len(ordem)) \cup DOMAIN h |->
               IF i \in 1..Len(ordem)
               THEN Processo(h[ordem[i]].pid, h[ordem[i]].tempo_chegada, h[ordem[i]].tempo_execucao)
               ELSE h[i]],
   lista |-> [i \in 1..Len(ordem) |-> i]]

\* classe_escalonador(copia_processos) before executar: EscalonadorBase.__init__
\* on the list `lista` of heap h.
Montado(lista, h, c, pre, q) ==
  /\ classe = c
  /\ preemptivo = pre
  /\ quantum_tempo = q
  /\ entrada = lista
  /\ proc = h
  /\ processos_originais = SortedInit(lista, h)
  /\ processos = SortedInit(lista, h)
  /\ fila_prontos = <<>>
  /\ processos_concluidos = <<>>
  /\ tempo_atual = 0
  /\ processo_atual = 0
  /\ primeira_execucao = <<>>
  /\ fim_ultima_execucao = <<>>
  /\ retorno = None
  /\ pc = "loop"

\* The caller holds the workload w, is in the first of the runs cfgs, each run
\* k on copies of the caller's objects taken in the order ords[k].
Lancado(w, esc, cfgs, ords) ==
  LET c == Copias(ords[1], Originais(w))
  IN /\ Montado(c.lista, c.heap, cfgs[1][1], cfgs[1][2], cfgs[1][3])
     /\ escala = esc
     /\ sim_processos = [i \in 1..Len(w) |-> Len(w) + i]
     /\ plano = [k \in 1..(Len(cfgs) - 1) |-> [cfg |-> cfgs[k + 1], ordem |-> ords[k + 1]]]
     /\ resultados = <<>>
     /\ anterior = None

\* What a finished run leaves in the scheduler object: the completion order (as
\* pids), each process by pid, the clock and the metrics.
Resultado ==
  [ordem    |-> [k \in 1..Len(processos_concluidos) |-> proc[processos_concluidos[k]].pid],
   por_pid  |-> [p \in {proc[a].pid : a \in Range(entrada)} |->
                   proc[CHOOSE a \in Range(entrada) : proc[a].pid = p]],
   relogio  |-> tempo_atual,
   metricas |-> retorno]

\* One more iteration of the loop over the algorithms (lines 318-333, 441-468):
\* the metrics of the run that ended are stored, new copies are made and the
\* next scheduler is constructed on them.
Sim_Proximo ==
  /\ pc = "done"
  /\ plano # <<>>
  /\ LET e == Head(plano)
         c == Copias(e.ordem, proc)
     IN /\ classe' = e.cfg[1]
        /\ preemptivo' = e.cfg[2]
        /\ quantum_tempo' = e.cfg[3]
        /\ entrada' = c.lista
        /\ proc' = c.heap
        /\ processos_originais' = SortedInit(c.lista, c.heap)
        /\ processos' = SortedInit(c.lista, c.heap)
  /\ fila_prontos' = <<>>
  /\ processos_concluidos' = <<>>
  /\ tempo_atual' = 0
  /\ processo_atual' = 0
  /\ primeira_execucao' = <<>>
  /\ fim_ultima_execucao' = <<>>
  /\ retorno' = None
  /\ pc' = "loop"
  /\ plano' = Tail(plano)
  /\ resultados' = Append(resultados, <<classe, preemptivo, quantum_tempo, retorno>>)
  /\ anterior' = Some(Resultado)
  /\ UNCHANGED <<escala, sim_processos>>

\* The last iteration stores its metrics and the loop ends (lines 333-335).
Sim_Retorna ==
  /\ pc = "done"
  /\ plano = <<>>
  /\ resultados' = Append(resultados, <<classe, preemptivo, quantum_tempo, retorno>>)
  /\ pc' = "fim"
  /\ UNCHANGED <<escala, sim_processos, plano, anterior, classe, preemptivo, quantum_tempo, entrada,
                 proc, processos_originais, processos, fila_prontos, processos_concluidos,
                 tempo_atual, processo_atual, primeira_execucao, fim_ultima_execucao, retorno>>

\* quantum_tempo=2 of executar_simulacao (line 328), the default of __main__.
QuantumSimulacao == 2

\* The four runs of executar_simulacao (lines 310-315, 325-331).
Algoritmos(q) == <<<<"FCFS", FALSE, 0>>, <<"SJF", FALSE, 0>>, <<"SJF", TRUE, 0>>, <<"RR", FALSE, q>>>>

InitSimulador ==
  \E w \in CargasValidas :
    Lancado(w, 1, Algoritmos(QuantumSimulacao), [k \in 1..4 |-> [i \in 1..Len(w) |-> Len(w) + i]])

\* Valid workloads in which no two processes arrive at the same time.
CargasDistintas ==
  {w \in CargasValidas : \A i, j \in 1..Len(w) : i # j => w[i][1] # w[j][1]}

\* The caller's objects for workload w, listed by arrival time.
OrdemDeChegada(w) ==
  Sorted([i \in 1..Len(w) |-> Len(w) + i],
         [a \in (Len(w) + 1)..(2 * Len(w)) |-> w[a - Len(w)][1]])

\* One scheduler is constructed and run on the list as the caller has it, and
\* then again on the same processes listed by arrival time.
InitPermutacao ==
  \E w \in CargasDistintas, cfg \in Configuracoes(1..MaxQuantum) :
    Lancado(w, 1, <<cfg, cfg>>, <<[i \in 1..Len(w) |-> Len(w) + i], OrdemDeChegada(w)>>)

\* ---------------------------------------------------------------------------
\* The event-driven scheduler of the specification's section on idle time:
\* the same FCFS and SJF, except that an idle processor moves the clock
\* straight to the earliest pending arrival.  The caller runs the scheduler of
\* the source first, and then this one on new copies of the same workload.

\* The idle branch of the source (lines 147-149), in the first run.
FCFS_IdlePasso == anterior = None /\ FCFS_Idle

\* The idle branch that jumps to min(next arrival), in the second run.
FCFS_IdleSalto ==
  /\ anterior # None
  /\ classe = "FCFS" /\ pc = "select"
  /\ fila_prontos = <<>>
  /\ tempo_atual' = ProximaChegada(processos, proc)
  /\ pc' = "loop"
  /\ UNCHANGED <<exterior, classe, preemptivo, quantum_tempo, entrada, proc, processos_originais,
                 processos, fila_prontos, processos_concluidos, processo_atual,
                 primeira_execucao, fim_ultima_execucao, retorno>>

\* The idle branch of the source (lines 194-196), in the first run.
SJF_IdlePasso == anterior = None /\ SJF_Idle

\* The idle branch that jumps to min(next arrival), in the second run.
SJF_IdleSalto ==
  /\ anterior # None
  /\ classe = "SJF" /\ pc = "select"
  /\ fila_prontos = <<>>
  /\ tempo_atual' = ProximaChegada(processos, proc)
  /\ pc' = "loop"
  /\ UNCHANGED <<exterior, classe, preemptivo, quantum_tempo, entrada, proc, processos_originais,
                 processos, fila_prontos, processos_concluidos, processo_atual,
                 primeira_execucao, fim_ultima_execucao, retorno>>

\* Arrival and burst times are multiples of 1/escala of the time unit: with
\* escala 2 they are 0, 0.5, 1, ... as the floats the generators produce
\* (lines 41-43, 56-59) need not be whole.
InitSalto ==
  \E w \in CargasValidas, esc \in 1..MaxEscala,
     cfg \in {<<"FCFS", FALSE, 0>>, <<"SJF", FALSE, 0>>, <<"SJF", TRUE, 0>>} :
    Lancado(w, esc, <<cfg, cfg>>, [k \in 1..2 |-> [i \in 1..Len(w) |-> Len(w) + i]])

Next ==
  \/ FCFS_Admit \/ FCFS_Dispatch \/ FCFS_Run \/ FCFS_Idle \/ FCFS_Return
  \/ SJF_Admit \/ SJF_Dispatch \/ SJF_Run \/ SJF_Idle \/ SJF_Return
  \/ RR_Admit \/ RR_Dispatch \/ RR_Run \/ RR_Idle \/ RR_Return

Spec == Init /\ [][Next]_vars

\* Any argument values, valid or not.
SpecQualquer == InitQualquer /\ [][Next]_vars

\* executar is a sequential loop: a step that can be taken is taken.
FairSpec == Init /\ [][Next]_vars /\ WF_vars(Next)

\* The schedulers under the caller that runs them one after the other.
NextSimulador ==
  \/ FCFS_Admit \/ FCFS_Dispatch \/ FCFS_Run \/ FCFS_Idle \/ FCFS_Return
  \/ SJF_Admit \/ SJF_Dispatch \/ SJF_Run \/ SJF_Idle \/ SJF_Return
  \/ RR_Admit \/ RR_Dispatch \/ RR_Run \/ RR_Idle \/ RR_Return
  \/ Sim_Proximo \/ Sim_Retorna

SpecSimulador == InitSimulador /\ [][NextSimulador]_vars

\* FCFS and SJF as in the source, then with the idle jump.
NextSalto ==
  \/ FCFS_Admit \/ FCFS_Dispatch \/ FCFS_Run \/ FCFS_IdlePasso \/ FCFS_IdleSalto \/ FCFS_Return
  \/ SJF_Admit \/ SJF_Dispatch \/ SJF_Run \/ SJF_IdlePasso \/ SJF_IdleSalto \/ SJF_Return
  \/ Sim_Proximo \/ Sim_Retorna

SpecSalto == InitSalto /\ [][NextSalto]_vars

\* The same scheduler on two orders of one list.
SpecPermutacao == InitPermutacao /\ [][NextSimulador]_vars

----------------------------------------------------------------------------
\* Vocabulary of the properties.

\* The workload built is w, a sequence of <<arrival, burst>>.
EhCarga(w) ==
  /\ Len(entrada) = Len(w)
  /\ \A i \in 1..Len(w) : /\ proc[i].tempo_chegada = w[i][1]
                          /\ proc[i].tempo_execucao_original = w[i][2]

\* The position of object a in the list s, 0 when absent.
Posicao(s, a) == IF a \in Range(s) THEN CHOOSE k \in 1..Len(s) : s[k] = a ELSE 0

Concluido(a) == a \in Range(processos_concluidos)

\* C1: when executar returns, the completed list has as many entries as the
\* input list and every input pid occurs in it exactly once.
C1_Conservacao ==
  pc = "done" =>
    /\ Len(processos_concluidos) = Len(entrada)
    /\ \A i \in Range(entrada) :
         Cardinality({k \in 1..Len(processos_concluidos) :
                        proc[processos_concluidos[k]].pid = proc[i].pid}) = 1

C1_Witness ==
  /\ pc = "done" /\ classe = "RR" /\ Len(entrada) = 3
  /\ processos_concluidos # entrada

\* C2: every run reaches the state where the pending pool and the ready queue
\* are empty and executar has returned.
C2_Termina == <>(pc = "done" /\ processos = <<>> /\ fila_prontos = <<>>)

C2_Witness ==
  /\ pc = "done" /\ classe = "SJF" /\ preemptivo /\ Len(entrada) = 3
  /\ \E i, j \in Range(entrada) :
       i # j /\ proc[i].tempo_execucao_original = proc[j].tempo_execucao_original

\* C3: every completed process has a waiting time of at least zero and a
\* turnaround of at least its original burst.
C3_NaoNegativo ==
  \A a \in Range(processos_concluidos) :
    /\ proc[a].tempo_espera >= 0
    /\ proc[a].tempo_resposta_total >= proc[a].tempo_execucao_original

C3_Witness ==
  /\ pc = "done" /\ Len(entrada) = 3
  /\ \E a \in Range(processos_concluidos) : proc[a].tempo_espera > 0
  /\ \E a \in Range(processos_concluidos) : proc[a].tempo_chegada > 0 /\ proc[a].tempo_espera = 0

\* C4: under FCFS, of two processes with distinct arrival times the earlier
\* one is completed first and no later; A(0,5), B(1,1) complete in the order
\* A, B at 5 and 6 and B waits 4.
C4_OrdemFCFS ==
  classe = "FCFS" =>
    /\ \A a, b \in Range(entrada) :
         (proc[a].tempo_chegada < proc[b].tempo_chegada /\ Concluido(b)) =>
           /\ Concluido(a)
           /\ Posicao(processos_concluidos, a) < Posicao(processos_concluidos, b)
           /\ proc[a].tempo_conclusao[1] <= proc[b].tempo_conclusao[1]
    /\ (pc = "done" /\ EhCarga(<<<<0, 5>>, <<1, 1>>>>)) =>
         /\ processos_concluidos = <<1, 2>>
         /\ proc[1].tempo_conclusao = Some(5)
         /\ proc[2].tempo_conclusao = Some(6)
         /\ proc[2].tempo_espera = 4

C4_Witness ==
  /\ classe = "FCFS" /\ pc = "done" /\ Len(entrada) = 3
  /\ \E a, b, c \in Range(entrada) :
       /\ proc[a].tempo_chegada < proc[b].tempo_chegada
       /\ proc[b].tempo_chegada < proc[c].tempo_chegada
       /\ proc[b].tempo_execucao_original > proc[c].tempo_execucao_original
       /\ proc[c].tempo_chegada <= proc[a].tempo_conclusao[1]

\* Some process other than a has arrived by time t and is not completed.
OutroPronto(a, t) ==
  \E b \in Range(entrada) :
    b # a /\ ~Concluido(b) /\ proc[b].tempo_chegada <= t

\* C5: under non-preemptive SJF the process dispatched has the smallest
\* remaining burst among the arrived, uncompleted processes, and the step that
\* follows runs it to completion: the clock advances by its whole burst and
\* it is appended to the completed list.
C5_SJFSelecao ==
  [][(classe = "SJF" /\ ~preemptivo /\ pc = "run") =>
       /\ \A b \in Range(entrada) :
            (~Concluido(b) /\ proc[b].tempo_chegada <= tempo_atual) =>
              proc[processo_atual].tempo_execucao <= proc[b].tempo_execucao
       /\ tempo_atual' = tempo_atual + proc[processo_atual].tempo_execucao
       /\ proc'[processo_atual].tempo_execucao = 0
       /\ processos_concluidos' = Append(processos_concluidos, processo_atual)
       /\ fila_prontos' = fila_prontos]_vars

C5_Witness ==
  /\ classe = "SJF" /\ ~preemptivo /\ pc = "run"
  /\ \E b \in Range(fila_prontos) :
       /\ proc[b].tempo_chegada < proc[processo_atual].tempo_chegada
       /\ proc[b].tempo_execucao > proc[processo_atual].tempo_execucao

\* C6: under preemptive SJF a running process is preempted at the instant a
\* process arrives whose burst is strictly shorter than what the running one
\* then has left: the step that runs processo_atual does not carry the clock
\* past such an arrival.  For A(0,7), B(2,2): B completes at 4, before A.
C6_Preempcao ==
  /\ [][(classe = "SJF" /\ preemptivo /\ pc = "run") =>
          \A b \in Range(processos) :
            (/\ tempo_atual < proc[b].tempo_chegada
             /\ proc[b].tempo_execucao
                  < proc[processo_atual].tempo_execucao
                      - (proc[b].tempo_chegada - tempo_atual)) =>
              tempo_atual' <= proc[b].tempo_chegada]_vars
  /\ []((classe = "SJF" /\ preemptivo /\ pc = "done"
           /\ EhCarga(<<<<0, 7>>, <<2, 2>>>>)) =>
          /\ proc[2].tempo_conclusao = Some(4)
          /\ processos_concluidos = <<2, 1>>)

\* C7: under Round-Robin a process is dispatched for a second consecutive
\* slice (it left the CPU at the very instant of this dispatch) only when no
\* other uncompleted process has arrived.
C7_SemFatiasSeguidas ==
  (/\ classe = "RR" /\ pc = "run" /\ tempo_atual > 0
   /\ fim_ultima_execucao[proc[processo_atual].pid] = tempo_atual) =>
     ~OutroPronto(processo_atual, tempo_atual)

\* C8: under Round-Robin, when the loop admits arrivals right after a slice
\* ended with burst left, the processes admitted are in arrival order and
\* ahead of the process that was just requeued.
C8_ChegadasAntesDoReenfileirado ==
  [][(classe = "RR" /\ pc = "loop" /\ pc' = "select") =>
       \A a \in Range(fila_prontos) :
         (tempo_atual > 0 /\ fim_ultima_execucao[proc[a].pid] = tempo_atual) =>
           \A b \in Range(processos) :
             proc[b].tempo_chegada <= tempo_atual =>
               /\ b \in Range(fila_prontos')
               /\ Posicao(fila_prontos', b) < Posicao(fila_prontos', a)
               /\ \A c \in Range(processos) :
                    proc[c].tempo_chegada < proc[b].tempo_chegada =>
                      Posicao(fila_prontos', c) < Posicao(fila_prontos', b)]_vars

\* The arguments satisfy the specification's preconditions.
EntradaValida ==
  /\ \A i \in Range(entrada) : /\ proc[i].tempo_chegada >= 0
                               /\ proc[i].tempo_execucao_original > 0
  /\ classe = "RR" => quantum_tempo > 0

\* C9: for invalid arguments no simulation step happens: the clock stays at 0,
\* nothing is dispatched and nothing is completed.
C9_EntradaInvalidaRejeitada ==
  ~EntradaValida =>
    /\ tempo_atual = 0
    /\ processo_atual = 0
    /\ processos_concluidos = <<>>

\* C10: on an empty list no loop iteration is made, the clock stays at 0, the
\* completed list stays empty and executar returns None.
C10_ListaVazia ==
  entrada = <<>> =>
    /\ pc \in {"loop", "done"}
    /\ tempo_atual = 0
    /\ processos_concluidos = <<>>
    /\ pc = "done" => retorno = None

C10_Witness == entrada = <<>> /\ pc = "done" /\ classe = "RR"

\* The number of times object a occurs in the list s.
Ocorrencias(s, a) == Cardinality({k \in 1..Len(s) : s[k] = a})

\* Object a is the one executing: popped and not yet requeued or completed.
EmExecucao(a) == pc = "run" /\ processo_atual = a

\* C12: every input process is in exactly one of the pending pool, the ready
\* queue, execution and the completed list; and a completed process stays
\* completed and enters neither the ready queue nor the pending pool again.
C12_UmSoLugar ==
  /\ [](\A a \in Range(entrada) :
          Ocorrencias(processos, a) + Ocorrencias(fila_prontos, a)
            + Ocorrencias(processos_concluidos, a)
            + (IF EmExecucao(a) THEN 1 ELSE 0) = 1)
  /\ [][\A a \in Range(processos_concluidos) :
          /\ a \in Range(processos_concluidos')
          /\ a \notin Range(fila_prontos')
          /\ a \notin Range(processos')]_vars

C12_Witness ==
  /\ classe = "RR" /\ pc = "run"
  /\ fila_prontos # <<>> /\ processos_concluidos # <<>>
  /\ proc[processo_atual].tempo_execucao < proc[processo_atual].tempo_execucao_original

\* C13: every completed process has a response time, written at its first
\* dispatch as the clock minus its arrival time and left alone by any later
\* dispatch.
C13_TempoResposta ==
  /\ [](\A a \in Range(processos_concluidos) : proc[a].tempo_resposta # None)
  /\ [][(pc = "select" /\ pc' = "run") =>
          LET a == processo_atual' IN
            IF proc[a].tempo_resposta = None
            THEN proc'[a].tempo_resposta = Some(tempo_atual - proc[a].tempo_chegada)
            ELSE proc'[a].tempo_resposta = proc[a].tempo_resposta]_vars

\* C14: the remaining burst of every process stays between 0 and its original
\* burst, and no step changes an original burst.
C14_ExecucaoLimitada ==
  /\ [](\A a \in Range(entrada) :
          /\ 0 <= proc[a].tempo_execucao
          /\ proc[a].tempo_execucao <= proc[a].tempo_execucao_original)
  /\ [][\A a \in Range(entrada) :
          proc'[a].tempo_execucao_original = proc[a].tempo_execucao_original]_vars

C14_Witness ==
  /\ classe = "RR" /\ pc = "run"
  /\ \E a \in Range(fila_prontos) :
       0 < proc[a].tempo_execucao
         /\ proc[a].tempo_execucao < proc[a].tempo_execucao_original

\* C15: the completed list is in completion order: completion times do not
\* decrease along it, and the list only ever grows by one process at its
\* tail, whose completion time is the clock of that instant.
C15_OrdemDeConclusao ==
  /\ [](\A k \in 1..(Len(processos_concluidos) - 1) :
          proc[processos_concluidos[k]].tempo_conclusao[1]
            <= proc[processos_concluidos[k + 1]].tempo_conclusao[1])
  /\ [][processos_concluidos' # processos_concluidos =>
          \E a \in Range(entrada) :
            /\ processos_concluidos' = Append(processos_concluidos, a)
            /\ proc'[a].tempo_conclusao = Some(tempo_atual')]_vars

C15_Witness ==
  /\ pc = "done" /\ Len(processos_concluidos) = 3
  /\ processos_concluidos # processos_originais
  /\ proc[processos_concluidos[1]].tempo_conclusao[1]
       < proc[processos_concluidos[2]].tempo_conclusao[1]

\* C17: under SJF, a ready process with the same remaining burst as the one
\* dispatched arrived later, or arrived at the same time and comes later in
\* the input list.
C17_DesempateSJF ==
  (classe = "SJF" /\ pc = "run") =>
    \A b \in Range(fila_prontos) :
      proc[b].tempo_execucao = proc[processo_atual].tempo_execucao =>
        \/ proc[processo_atual].tempo_chegada < proc[b].tempo_chegada
        \/ /\ proc[processo_atual].tempo_chegada = proc[b].tempo_chegada
           /\ Posicao(entrada, processo_atual) < Posicao(entrada, b)

C17_Witness ==
  /\ classe = "SJF" /\ pc = "run" /\ processos_concluidos # <<>>
  /\ \E b \in Range(fila_prontos) :
       /\ proc[b].tempo_execucao = proc[processo_atual].tempo_execucao
       /\ proc[processo_atual].tempo_chegada < proc[b].tempo_chegada
       /\ Posicao(entrada, b) < Posicao(entrada, processo_atual)

\* C18: no step moves the clock back, and the step that ends a loop
\* iteration, the run of the dispatched process or the idle advance, moves it
\* strictly forward.
C18_RelogioAvanca ==
  [][/\ tempo_atual' >= tempo_atual
     /\ (pc = "run" \/ (pc = "select" /\ fila_prontos = <<>>)) =>
          tempo_atual' > tempo_atual]_vars

C18_Witness ==
  /\ classe = "SJF" /\ preemptivo /\ pc = "run" /\ tempo_atual > 0
  /\ \E b \in Range(fila_prontos) :
       proc[b].tempo_execucao = proc[processo_atual].tempo_execucao

\* C19: every process in the completed list has no burst left.
C19_ConcluidoSemRestante ==
  \A a \in Range(processos_concluidos) : proc[a].tempo_execucao = 0
\* The workload the caller holds, as its objects were constructed.
CargaDoSimulador ==
  [i \in 1..Len(sim_processos) |->
     <<proc[sim_processos[i]].tempo_chegada, proc[sim_processos[i]].tempo_execucao_original>>]

\* C11: when the caller runs several policies one after the other, each on its
\* own copy of the workload, the caller's own process objects stay as they
\* were constructed (full burst, metrics at their defaults), and every run
\* after the first starts on objects apart from the caller's, with the full
\* burst and default metrics, clock 0 and empty queues: the state in which
\* that policy starts when it is run alone on the workload.
C11_CopiasIndependentes ==
  /\ [](\A k \in 1..Len(sim_processos) :
          proc[sim_processos[k]] =
            Processo(k, CargaDoSimulador[k][1], CargaDoSimulador[k][2]))
  /\ [][(pc = "done" /\ pc' = "loop") =>
          /\ Range(entrada') \cap Range(sim_processos) = {}
          /\ Len(entrada') = Len(sim_processos)
          /\ \A k \in 1..Len(sim_processos) :
               proc'[entrada'[k]] = Processo(k, CargaDoSimulador[k][1], CargaDoSimulador[k][2])
          /\ processos' = SortedInit(entrada', proc')
          /\ fila_prontos' = <<>> /\ processos_concluidos' = <<>> /\ tempo_atual' = 0
          /\ primeira_execucao' = <<>> /\ fim_ultima_execucao' = <<>>]_vars

\* The fourth run has ended, and the runs before it wrote metrics and used up
\* bursts on their copies.
C11_Witness ==
  /\ pc = "fim"
  /\ Len(resultados) = 4
  /\ Len(sim_processos) >= 2
  /\ anterior # None
  /\ \E p \in DOMAIN anterior[1].por_pid :
       anterior[1].por_pid[p].tempo_espera > 0 /\ anterior[1].por_pid[p].tempo_execucao = 0
  /\ \E a \in Range(entrada) : proc[a].tempo_espera > 0 /\ proc[a].tempo_execucao = 0

\* C16: the scheduler needs no order in its input.  For every policy and every
\* valid workload with pairwise distinct arrival times, the run on the list in
\* any order ends with the completion order, the per-process metrics and the
\* final clock of the run on the same processes listed by arrival time; so
\* any two orders of one list end alike.
C16_SemOrdemDeEntrada ==
  (pc = "done" /\ anterior # None) =>
    /\ [k \in 1..Len(processos_concluidos) |-> proc[processos_concluidos[k]].pid] = anterior[1].ordem
    /\ \A a \in Range(entrada) :
         /\ proc[a].pid \in DOMAIN anterior[1].por_pid
         /\ proc[a] = anterior[1].por_pid[proc[a].pid]
    /\ Len(entrada) = Cardinality(DOMAIN anterior[1].por_pid)
    /\ tempo_atual = anterior[1].relogio
    /\ retorno = anterior[1].metricas

\* Both runs are over, the first was on a list of three not in arrival order,
\* and a process had to wait.
C16_Witness ==
  /\ pc = "done"
  /\ anterior # None
  /\ Len(sim_processos) = 3
  /\ \E i, j \in 1..Len(sim_processos) :
       i < j /\ proc[sim_processos[i]].tempo_chegada > proc[sim_processos[j]].tempo_chegada
  /\ \E a \in Range(entrada) : proc[a].tempo_espera > 0
  /\ classe = "RR"

\* C20: for FCFS and SJF, whose idle step is clock + 1, each process's final
\* tempo_espera, tempo_resposta_total and tempo_conclusao and the final clock
\* are those of the same scheduler with an idle step that jumps to the earliest
\* pending arrival, for every valid workload, whole multiples of the idle step
\* or not.
C20_SaltoEquivalente ==
  (pc = "done" /\ anterior # None) =>
    /\ \A a \in Range(entrada) :
         LET b == anterior[1].por_pid[proc[a].pid]
         IN /\ proc[a].tempo_espera = b.tempo_espera
            /\ proc[a].tempo_resposta_total = b.tempo_resposta_total
            /\ proc[a].tempo_conclusao = b.tempo_conclusao
    /\ tempo_atual = anterior[1].relogio

\* The same, for the workloads in which every arrival and burst time is a
\* whole number of time units.
C20_SaltoEquivalenteInteiros ==
  (\A a \in Range(entrada) :
     proc[a].tempo_chegada % escala = 0 /\ proc[a].tempo_execucao_original % escala = 0)
    => C20_SaltoEquivalente

\* C21: for every policy and every valid workload, the tempo_espera of each
\* completed process is the time it was ready and not executing, that is its
\* tempo_resposta_total less its original burst; under Round-Robin also after
\* several expired quanta and requeues, and when the first dispatch is at
\* clock 0.
C21_EsperaExata ==
  \A a \in Range(processos_concluidos) :
    proc[a].tempo_espera = proc[a].tempo_resposta_total - proc[a].tempo_execucao_original

\* Round-Robin completed a process that was first dispatched at clock 0, was
\* requeued at the end of a quantum and then waited behind another process.
C21_Witness ==
  /\ classe = "RR"
  /\ \E a \in Range(processos_concluidos) :
       /\ proc[a].tempo_chegada = 0
       /\ proc[a].tempo_resposta = Some(0)
       /\ proc[a].tempo_execucao_original > quantum_tempo
       /\ proc[a].tempo_espera > 0

====
